---- MODULE Spec2Model ----
(***************************************************************************)
(* Model of the guidebook dispatch and variable loading pipeline of stg:   *)
(* dry.py (dispatch), io_manager.py (file operations) and the three        *)
(* guidebooks (modis, clavrx, ctp).                                        *)
(*                                                                         *)
(* Strings that the code inspects character by character (file names) are  *)
(* sequences of one-character strings.  Floating point cells are records   *)
(* [nan, v]: NaN is the missing sentinel (numpy.nan), every other value is *)
(* an integer (the binary product's values are held in tenths of a unit).  *)
(***************************************************************************)
EXTENDS Integers, Sequences, FiniteSets, TLC

VARIABLES listing, handles, refs, last, px

vars == <<listing, handles, refs, last, px>>

\* ------------------------------------------------------------------ bounds
MaxHandles == 2
NCells     == 2
MaxPieces  == 3
MaxScale   == 2
MaxOffset  == 1
MaxLoads   == 2

\* ------------------------------------------------------- character strings
sMOD    == <<"M", "O", "D">>
sMYD    == <<"M", "Y", "D">>
sCLAVRx == <<"C", "L", "A", "V", "R", "x">>
sHdf    == <<"h", "d", "f">>
sCtpBin == <<"c", "t", "p", ".", "b", "i", "n">>
sDot    == <<".">>
sSlash  == <<"/">>

\* the Python value None where a path is expected (no character string equals it)
NonePath == <<"<None>">>

StartsWith(s, prefix) ==
    /\ Len(s) >= Len(prefix)
    /\ SubSeq(s, 1, Len(prefix)) = prefix

EndsWith(s, suffix) ==
    /\ Len(s) >= Len(suffix)
    /\ SubSeq(s, Len(s) - Len(suffix) + 1, Len(s)) = suffix

SetMax(S) == CHOOSE x \in S : \A y \in S : y <= x

\* os.path.basename: everything after the last '/'
CleanOffPath(file_name_string) ==
    LET slashes == {i \in 1..Len(file_name_string) : file_name_string[i] = "/"}
    IN  IF slashes = {} THEN file_name_string
        ELSE SubSeq(file_name_string, SetMax(slashes) + 1, Len(file_name_string))

\* ------------------------------------------------------------- guidebooks
MODIS  == "modis_guidebook"
CLAVRX == "clavrx_guidebook"
CTP    == "ctp_guidebook"
NoModule == "None"

Guidebooks == {MODIS, CLAVRX, CTP}

\* a match that looks at the prefix only
ModisIsMyFileAnySuffix(file_name_string) ==
    LET temp_name_string == CleanOffPath(file_name_string)
    IN  StartsWith(temp_name_string, sMYD) \/ StartsWith(temp_name_string, sMOD)

ModisIsMyFile(file_name_string) ==
    LET temp_name_string == CleanOffPath(file_name_string)
    IN  /\ (StartsWith(temp_name_string, sMYD) \/ StartsWith(temp_name_string, sMOD))
        /\ EndsWith(temp_name_string, sHdf)

ClavrxIsMyFile(file_name_string) ==
    LET temp_name_string == CleanOffPath(file_name_string)
    IN  StartsWith(temp_name_string, sCLAVRx) /\ EndsWith(temp_name_string, sHdf)

CtpIsMyFile(file_name_string) ==
    LET temp_name_string == CleanOffPath(file_name_string)
    IN  EndsWith(temp_name_string, sCtpBin)

IsMyFile(mod, file_name_string) ==
    CASE mod = MODIS  -> ModisIsMyFile(file_name_string)
      [] mod = CLAVRX -> ClavrxIsMyFile(file_name_string)
      [] mod = CTP    -> CtpIsMyFile(file_name_string)

\* --------------------------------------------------------------- dispatch
\* entries of the guidebooks directory, as os.listdir names them
DirEntry(name, ext) == [name |-> name, ext |-> ext]
InitPy   == DirEntry("__init__", "py")
ModisPyc == DirEntry(MODIS, "pyc")

\* os.listdir returns the entries in arbitrary order: every order of the
\* three guidebook modules, with __init__.py first and a compiled file last
Listings ==
    { <<InitPy, DirEntry(a, "py"), DirEntry(b, "py"), DirEntry(c, "py"), ModisPyc>> :
        <<a, b, c>> \in { t \in Guidebooks \X Guidebooks \X Guidebooks :
                            t[1] # t[2] /\ t[1] # t[3] /\ t[2] # t[3] } }

\* module == '__init__.py' or module[-3:] != '.py'
SkipEntry(module) ==
    \/ (module.name = "__init__" /\ module.ext = "py")
    \/ module.ext # "py"

DryResult(err, mod, probed) == [err |-> err, mod |-> mod, probed |-> probed]

\* a loop that ends by returning the module it looked at last
NoMatchReturnsLast(probed) == DryResult("none", probed[Len(probed)], probed)

\* LOG.error(...); raise RuntimeError
NoMatch(probed) == DryResult("RuntimeError", NoModule, probed)

RECURSIVE DryScan(_, _, _, _)
DryScan(dirlist, i, test_data, probed) ==
    IF i > Len(dirlist)
    THEN NoMatch(probed)
    ELSE LET module == dirlist[i]
         IN  IF SkipEntry(module)
             THEN DryScan(dirlist, i + 1, test_data, probed)
             ELSE IF test_data = NonePath
                  THEN \* os.path.basename(None) inside is_my_file
                       DryResult("AttributeError", NoModule, Append(probed, module.name))
                  ELSE IF IsMyFile(module.name, test_data)
                       THEN DryResult("none", module.name, Append(probed, module.name))
                       ELSE DryScan(dirlist, i + 1, test_data, Append(probed, module.name))

Dry(dirlist, test_data) == DryScan(dirlist, 1, test_data, <<>>)


\* ------------------------------------------------------ floating point cells
Num(x) == [nan |-> FALSE, v |-> x]
NaN    == [nan |-> TRUE,  v |-> 0]

FEq(a, b) == ~a.nan /\ ~b.nan /\ a.v = b.v
FLt(a, b) == ~a.nan /\ ~b.nan /\ a.v < b.v
FGt(a, b) == ~a.nan /\ ~b.nan /\ a.v > b.v
FAdd(a, b) == IF a.nan \/ b.nan THEN NaN ELSE Num(a.v + b.v)
FSub(a, b) == IF a.nan \/ b.nan THEN NaN ELSE Num(a.v - b.v)
FMul(a, b) == IF a.nan \/ b.nan THEN NaN ELSE Num(a.v * b.v)

\* raw_data_copy.astype(numpy.float32) of the values stored on disk
AsFloat(raw) == [i \in DOMAIN raw |-> Num(raw[i])]

NoData == <<>>

\* ------------------------------------------------- HDF guidebooks: loading
SCALE_ATTR_NAME      == "scale_factor"
ADD_OFFSET_ATTR_NAME == "add_offset"
FILL_VALUE_ATTR_NAME == "_fillvalue"

\* SDS.getcal raised HDF4Error
NoCal == [ok |-> FALSE, scale_factor |-> 1, add_offset |-> 0, data_type |-> "None"]
Cal(scale, offset, type) ==
    [ok |-> TRUE, scale_factor |-> scale, add_offset |-> offset, data_type |-> type]

\* `x is not <literal>`: false only when x is the very object of the literal,
\* which needs an equal value and an interpreter that shares the constant
IsNotLiteral(x, literal, shared) == ~(shared /\ x = literal)

\* the clavrx loader unscaling with the modis formula
ClavrxOffsetFirst(data, fill_mask, scale_factor, offset, shared) ==
    [i \in DOMAIN data |->
        IF fill_mask[i] THEN data[i]
        ELSE FMul(FSub(data[i], Num(offset)), Num(scale_factor))]

\* clavrx_guidebook.unscale_data: final = (input * scale_factor) + offset
ClavrxUnscaleData(data, fill_mask, scale_factor, offset, shared) ==
    [i \in DOMAIN data |->
        IF fill_mask[i] THEN data[i]
        ELSE LET scaled == IF IsNotLiteral(scale_factor, 1, shared)
                           THEN FMul(data[i], Num(scale_factor)) ELSE data[i]
             IN  IF IsNotLiteral(offset, 0, shared)
                 THEN FAdd(scaled, Num(offset)) ELSE scaled]

\* the modis loader unscaling with the clavrx formula
ModisScaleFirst(data, fill_mask, scale_factor, offset, shared) ==
    [i \in DOMAIN data |->
        IF fill_mask[i] THEN data[i]
        ELSE FAdd(FMul(data[i], Num(scale_factor)), Num(offset))]

\* modis_guidebook.unscale_data: final = scale_factor * (input - offset)
ModisUnscaleData(data, fill_mask, scale_factor, offset, shared) ==
    [i \in DOMAIN data |->
        IF fill_mask[i] THEN data[i]
        ELSE LET shifted == IF IsNotLiteral(offset, 0, shared)
                            THEN FSub(data[i], Num(offset)) ELSE data[i]
             IN  IF IsNotLiteral(scale_factor, 1, shared)
                 THEN FMul(shifted, Num(scale_factor)) ELSE shifted]

UnscaleData(mod, data, fill_mask, scale_factor, offset, shared) ==
    IF mod = MODIS
    THEN ModisUnscaleData(data, fill_mask, scale_factor, offset, shared)
    ELSE ClavrxUnscaleData(data, fill_mask, scale_factor, offset, shared)

LoadResult(err, data) == [err |-> err, data |-> data]

\* a fallback that takes the type from the scale attribute only
ByHandTypeOfScaleOnly(temp_attrs) ==
    IF SCALE_ATTR_NAME \in DOMAIN temp_attrs THEN "dtype(scale_factor)" ELSE "None"

\* except HDF4Error: data_type is set with each attribute read by hand, the
\* offset first and the scale after it
ByHandDataType(temp_attrs) ==
    IF SCALE_ATTR_NAME \in DOMAIN temp_attrs THEN "dtype(scale_factor)"
    ELSE IF ADD_OFFSET_ATTR_NAME \in DOMAIN temp_attrs THEN "dtype(add_offset)"
    ELSE "None"

\* the part of load_variable_from_file after the dataset was found
\* (identical text in the modis and clavrx guidebooks, up to unscale_data)
HdfReadVariable(mod, ds, shared) ==
    LET raw_data_copy == AsFloat(ds.raw)
        temp_attrs    == ds.attrs
        by_hand_off   == ~ds.cal.ok /\ ADD_OFFSET_ATTR_NAME \in DOMAIN temp_attrs
        by_hand_scale == ~ds.cal.ok /\ SCALE_ATTR_NAME \in DOMAIN temp_attrs
        add_offset    == IF ds.cal.ok THEN ds.cal.add_offset
                         ELSE IF by_hand_off THEN temp_attrs[ADD_OFFSET_ATTR_NAME]
                         ELSE 0
        scale_factor  == IF ds.cal.ok THEN ds.cal.scale_factor
                         ELSE IF by_hand_scale THEN temp_attrs[SCALE_ATTR_NAME]
                         ELSE 1
        data_type     == IF ds.cal.ok THEN ds.cal.data_type ELSE ByHandDataType(temp_attrs)
        has_fill      == FILL_VALUE_ATTR_NAME \in DOMAIN temp_attrs
        fill_value    == IF has_fill THEN Num(temp_attrs[FILL_VALUE_ATTR_NAME]) ELSE NaN
        fill_mask     == [i \in DOMAIN raw_data_copy |-> FEq(raw_data_copy[i], fill_value)]
        masked        == [i \in DOMAIN raw_data_copy |->
                            IF has_fill /\ fill_mask[i] THEN NaN ELSE raw_data_copy[i]]
    IN  IF scale_factor = 1 /\ add_offset = 0
        THEN LoadResult("none", masked)
        ELSE IF data_type = "None"
             THEN LoadResult("AssertionError", NoData)
             ELSE LoadResult("none",
                    UnscaleData(mod, masked, fill_mask, scale_factor, add_offset, shared))


\* ----------------------------------------------- binary product: the tables
\* All values of the binary product are in tenths (-99.9 is -999, 90.0 is 900).
LATITUDE_NAME               == "Latitude"
LONGITUDE_NAME              == "Longitude"
CLOUD_TOP_PRESS_NAME        == "Cloud_Top_Pressure"
CLOUD_TOP_HEIGHT_NAME       == "Cloud_Top_Height"
CLOUD_TOP_TEMP_NAME         == "Cloud_Top_Temperature"
EFFECTIVE_CLOUD_AMOUNT_NAME == "Effective_Cloud_Amount"
METHOD_FLAG_NAME            == "Retrieval_Method_Flag"
DAY_NIGHT_FLAG_NAME         == "Day_Night_Flag"
DIRECTION_FLAG_NAME         == "Direction_Flag"
VIEWING_ZENITH_NAME         == "Viewing_Zenith"
SCAN_LINE_TIME_NAME         == "Scan_Line_Time"
CLOUD_FRACTION_NAME         == "Cloud_Fraction"
LAND_FRACTION_NAME          == "Land_Fraction"
RESULTS_FLAG_NAME           == "Results_Flag"
UTLS_FLAG_NAME              == "UTLS_Flag"

\* the field names of the record type built in ctp_guidebook.open_file
ctp_names ==
    { LATITUDE_NAME, LONGITUDE_NAME, CLOUD_TOP_PRESS_NAME, CLOUD_TOP_HEIGHT_NAME,
      CLOUD_TOP_TEMP_NAME, EFFECTIVE_CLOUD_AMOUNT_NAME, METHOD_FLAG_NAME,
      DAY_NIGHT_FLAG_NAME, DIRECTION_FLAG_NAME, VIEWING_ZENITH_NAME,
      SCAN_LINE_TIME_NAME, CLOUD_FRACTION_NAME, LAND_FRACTION_NAME,
      RESULTS_FLAG_NAME, UTLS_FLAG_NAME }

VALID_RANGES ==
    [n \in { LATITUDE_NAME, LONGITUDE_NAME, DAY_NIGHT_FLAG_NAME, DIRECTION_FLAG_NAME,
             VIEWING_ZENITH_NAME, SCAN_LINE_TIME_NAME, CLOUD_FRACTION_NAME,
             LAND_FRACTION_NAME, RESULTS_FLAG_NAME, UTLS_FLAG_NAME } |->
        CASE n = LATITUDE_NAME       -> <<-900, 900>>
          [] n = LONGITUDE_NAME      -> <<-1800, 1800>>
          [] n = DAY_NIGHT_FLAG_NAME -> <<10, 20>>
          [] n = DIRECTION_FLAG_NAME -> <<10, 20>>
          [] n = VIEWING_ZENITH_NAME -> <<0, 900>>
          [] n = SCAN_LINE_TIME_NAME -> <<0, 864000000>>
          [] n = CLOUD_FRACTION_NAME -> <<0, 10>>
          [] n = LAND_FRACTION_NAME  -> <<0, 10>>
          [] n = RESULTS_FLAG_NAME   -> <<0, 30>>
          [] n = UTLS_FLAG_NAME      -> <<0, 20>>]

FILL_VALUES ==
    [n \in { CLOUD_TOP_PRESS_NAME, CLOUD_TOP_HEIGHT_NAME, CLOUD_TOP_TEMP_NAME,
             EFFECTIVE_CLOUD_AMOUNT_NAME, METHOD_FLAG_NAME } |->
        IF n = METHOD_FLAG_NAME THEN -990 ELSE -999]

\* a loader whose valid range excludes its two bounds
CtpMaskVariableOpenRange(variable_name, data) ==
    LET no_fill == IF variable_name \in DOMAIN FILL_VALUES
                   THEN [i \in DOMAIN data |->
                           IF FEq(data[i], Num(FILL_VALUES[variable_name]))
                           THEN NaN ELSE data[i]]
                   ELSE data
    IN  IF variable_name \in DOMAIN VALID_RANGES
        THEN [i \in DOMAIN data |->
                IF \/ ~FGt(no_fill[i], Num(VALID_RANGES[variable_name][1]))
                   \/ ~FLt(no_fill[i], Num(VALID_RANGES[variable_name][2]))
                THEN NaN ELSE no_fill[i]]
        ELSE no_fill

\* a loader that reads a cell masked by an earlier load as a zero
CtpMaskVariableUnmasks(variable_name, data) ==
    LET masked == CtpMaskVariableOpenRange(variable_name, data)
    IN  [i \in DOMAIN data |-> IF data[i].nan THEN Num(0) ELSE masked[i]]

\* ctp_guidebook.load_variable_from_file, from `data = file_object[...]` on:
\* the three masked assignments, one after the other, on the field itself
CtpMaskVariable(variable_name, data) ==
    LET no_fill == IF variable_name \in DOMAIN FILL_VALUES
                   THEN [i \in DOMAIN data |->
                           IF FEq(data[i], Num(FILL_VALUES[variable_name]))
                           THEN NaN ELSE data[i]]
                   ELSE data
        no_low  == IF variable_name \in DOMAIN VALID_RANGES
                   THEN [i \in DOMAIN data |->
                           IF FLt(no_fill[i], Num(VALID_RANGES[variable_name][1]))
                           THEN NaN ELSE no_fill[i]]
                   ELSE no_fill
    IN  IF variable_name \in DOMAIN VALID_RANGES
        THEN [i \in DOMAIN data |->
                IF FGt(no_low[i], Num(VALID_RANGES[variable_name][2]))
                THEN NaN ELSE no_low[i]]
        ELSE no_low


\* ------------------------------------------------------- the files on disk
ModisPath  == sSlash \o <<"d">> \o sSlash \o sMOD \o sDot \o sHdf
ClavrxPath == sCLAVRx \o sDot \o sHdf
CtpPath    == <<"x", ".">> \o sCtpBin
OtherPath  == <<"x", ".", "t", "x", "t">>

Paths == {ModisPath, ClavrxPath, CtpPath, OtherPath}

Dataset(raw, attrs, cal) == [raw |-> raw, attrs |-> attrs, cal |-> cal]

\* a buffer holding the value 5 in its first cell and -9999 in the others
FiveThenFill == [i \in 1..NCells |-> IF i = 1 THEN 5 ELSE -9999]

FullAttrs == [a \in {SCALE_ATTR_NAME, ADD_OFFSET_ATTR_NAME, FILL_VALUE_ATTR_NAME} |->
                CASE a = SCALE_ATTR_NAME      -> 2
                  [] a = ADD_OFFSET_ATTR_NAME -> 1
                  [] a = FILL_VALUE_ATTR_NAME -> -9999]
NoAttrs == [a \in {} |-> 0]

ModisFile ==
    [n \in {"Cloud_Top_Pressure", "Latitude"} |->
        IF n = "Latitude"
        THEN Dataset([i \in 1..NCells |-> 10 * i], NoAttrs, NoCal)
        ELSE Dataset(FiveThenFill, FullAttrs, Cal(2, 1, "int16"))]

ClavrxFile ==
    [n \in {"cloud_mask", "latitude"} |->
        IF n = "latitude"
        THEN Dataset([i \in 1..NCells |-> 10 * i], NoAttrs, NoCal)
        ELSE Dataset(FiveThenFill, FullAttrs, NoCal)]

\* four raw values around each field's fill constant or valid range
CtpSamples(n) ==
    IF n \in DOMAIN FILL_VALUES
    THEN <<FILL_VALUES[n], FILL_VALUES[n] + 1, 0, 2500>>
    ELSE <<VALID_RANGES[n][1] - 1, VALID_RANGES[n][1],
           VALID_RANGES[n][2], VALID_RANGES[n][2] + 1>>

\* the record array numpy.fromfile returns: one buffer per field
CtpFile(pattern) ==
    [n \in ctp_names |-> [i \in 1..NCells |-> Num(CtpSamples(n)[pattern[i]])]]

\* a file that is none of the three products holds no dataset and no record
NoFile == [n \in {} |-> 0]

\* the files whose content is the input under study: "MODa.hdf", "CLAVRxa.hdf", "a.ctp.bin"
AuxModisPath  == sMOD \o <<"a">> \o sDot \o sHdf
AuxClavrxPath == sCLAVRx \o <<"a">> \o sDot \o sHdf
AuxCtpPath    == <<"a", ".">> \o sCtpBin

Disk(path) ==
    CASE path = ModisPath  -> ModisFile
      [] path = ClavrxPath -> ClavrxFile
      [] path = CtpPath    -> CtpFile([i \in 1..NCells |-> IF i = 1 THEN 3 ELSE 1])
      [] path \in {AuxModisPath, AuxClavrxPath, AuxCtpPath} -> px.file
      [] OTHER             -> NoFile

\* ------------------------------------------------------------ file handles
NoHandle == 0

Handle(mod, path, open, mem) ==
    [mod |-> mod, path |-> path, open |-> open, closes |-> 0, mem |-> mem]

\* modis/clavrx: SD(file_path, SDC.READ) holds the file open until end();
\* ctp: numpy.fromfile reads the whole file into an array and holds nothing
OpenFile(mod, file_path, hs) ==
    IF mod = CTP
    THEN Append(hs, Handle(mod, file_path, FALSE, Disk(file_path)))
    ELSE Append(hs, Handle(mod, file_path, TRUE, <<>>))

\* modis/clavrx: file_object.end(); ctp: del file_object (drops a local name)
CloseFile(mod, file_object, hs) ==
    IF mod = CTP
    THEN hs
    ELSE [hs EXCEPT ![file_object].open = FALSE, ![file_object].closes = @ + 1]

Opened(file_object, hs) == [file_object |-> file_object, handles |-> hs]

\* a loader that opens the path whenever one is given
AlwaysOpen(mod, file_path, file_object, hs) ==
    IF file_path # NonePath
    THEN Opened(Len(hs) + 1, OpenFile(mod, file_path, hs))
    ELSE Opened(file_object, hs)

\* if file_object is None : file_object = open_file(file_path)
EnsureOpen(mod, file_path, file_object, hs) ==
    IF file_object = NoHandle
    THEN Opened(Len(hs) + 1, OpenFile(mod, file_path, hs))
    ELSE Opened(file_object, hs)

Loaded(err, file_object, data, hs) ==
    [err |-> err, file_object |-> file_object, data |-> data, handles |-> hs]

\* <guidebook>.load_variable_from_file
LoadVariableFromFile(mod, variable_name, file_path, file_object, hs, shared) ==
    IF file_path = NonePath /\ file_object = NoHandle
    THEN Loaded("MissingSource", NoHandle, NoData, hs)
    ELSE LET o  == EnsureOpen(mod, file_path, file_object, hs)
             fo == o.file_object
         IN  IF mod = CTP
             THEN IF variable_name \notin DOMAIN o.handles[fo].mem
                  THEN Loaded("FieldNotFound", NoHandle, NoData, o.handles)
                  ELSE LET data == CtpMaskVariable(variable_name,
                                                   o.handles[fo].mem[variable_name])
                       IN  Loaded("none", fo, data,
                                  [o.handles EXCEPT ![fo].mem[variable_name] = data])
             ELSE LET datasets == Disk(o.handles[fo].path)
                  IN  IF variable_name \notin DOMAIN datasets
                      THEN Loaded("VariableNotFound", NoHandle, NoData, o.handles)
                      ELSE LET r == HdfReadVariable(mod, datasets[variable_name], shared)
                           IN  Loaded(r.err,
                                      IF r.err = "none" THEN fo ELSE NoHandle,
                                      r.data, o.handles)


\* ------------------------------------------------ the calls and their state
\* listing : what os.listdir returns for the guidebooks directory
\* handles : every file object created so far, by its number
\* refs    : the file objects the caller holds (was given and has not closed)
\* last    : the last call, its arguments and what it returned or raised
\* px      : input and result of the function under study (pure checks only)
Variables == {"Cloud_Top_Pressure", "cloud_mask"}

Last(op, path, var, fo_in, mod, err, fo, data, probed) ==
    [op |-> op, path |-> path, var |-> var, fo_in |-> fo_in, mod |-> mod,
     err |-> err, fo |-> fo, data |-> data, probed |-> probed]

NoLast == Last("none", NonePath, "", NoHandle, NoModule, "none", NoHandle, NoData, <<>>)
NoPx   == [kind |-> "none"]

\* the handle checks run under one listing; SpecDispatch runs dispatch under
\* every listing
Init ==
    /\ listing \in {l \in Listings : l[2].name = MODIS /\ l[3].name = CLAVRX}
    /\ handles = <<>>
    /\ refs = {}
    /\ last = NoLast
    /\ px = NoPx

\* io_manager.open_file
IoOpenFile(file_path) ==
    LET guidebook == Dry(listing, file_path)
    IN  /\ guidebook.err = "none" => Len(handles) < MaxHandles
        /\ IF guidebook.err # "none"
           THEN /\ last' = Last("open_file", file_path, "", NoHandle, NoModule,
                                guidebook.err, NoHandle, NoData, guidebook.probed)
                /\ UNCHANGED <<handles, refs>>
           ELSE /\ handles' = OpenFile(guidebook.mod, file_path, handles)
                /\ refs' = refs \cup {Len(handles) + 1}
                /\ last' = Last("open_file", file_path, "", NoHandle, guidebook.mod,
                                "none", Len(handles) + 1, NoData, guidebook.probed)
    /\ UNCHANGED <<listing, px>>

\* io_manager.close_file
IoCloseFile(file_path, file_object) ==
    LET guidebook == Dry(listing, file_path)
    IN  /\ IF guidebook.err # "none"
           THEN /\ last' = Last("close_file", file_path, "", file_object, NoModule,
                                guidebook.err, NoHandle, NoData, guidebook.probed)
                /\ UNCHANGED <<handles, refs>>
           ELSE /\ handles' = CloseFile(guidebook.mod, file_object, handles)
                /\ refs' = refs \ {file_object}
                /\ last' = Last("close_file", file_path, "", file_object, guidebook.mod,
                                "none", NoHandle, NoData, guidebook.probed)
    /\ UNCHANGED <<listing, px>>

\* what a load call leaves behind: the new handle table, the caller's
\* references (it keeps the file object a successful call returns)
LoadOutcome(op, variable_name, file_path, file_object, mod, probed, r) ==
    /\ Len(r.handles) <= MaxHandles
    /\ handles' = r.handles
    /\ refs' = IF r.err = "none" THEN refs \cup {r.file_object} ELSE refs
    /\ last' = Last(op, file_path, variable_name, file_object, mod,
                    r.err, r.file_object, r.data, probed)

\* io_manager.load_variable_from_file
IoLoadVariable(variable_name, file_path, file_object, shared) ==
    LET guidebook == Dry(listing, file_path)
    IN  /\ IF guidebook.err # "none"
           THEN /\ last' = Last("load_variable_from_file", file_path, variable_name,
                                file_object, NoModule, guidebook.err, NoHandle, NoData,
                                guidebook.probed)
                /\ UNCHANGED <<handles, refs>>
           ELSE LoadOutcome("load_variable_from_file", variable_name, file_path,
                            file_object, guidebook.mod, guidebook.probed,
                            LoadVariableFromFile(guidebook.mod, variable_name, file_path,
                                                 file_object, handles, shared))
    /\ UNCHANGED <<listing, px>>

\* <guidebook>.load_variable_from_file called on the guidebook itself
GbLoadVariable(mod, variable_name, file_path, file_object, shared) ==
    /\ LoadOutcome("guidebook.load_variable_from_file", variable_name, file_path,
                   file_object, mod, <<>>,
                   LoadVariableFromFile(mod, variable_name, file_path, file_object,
                                        handles, shared))
    /\ UNCHANGED <<listing, px>>

PathsOrNone == Paths \cup {NonePath}

\* the caller passes a file object it holds, with the path it belongs to or none
GoodArgs(file_path, file_object) ==
    /\ file_object \in refs \cup {NoHandle}
    /\ (file_object # NoHandle /\ file_path # NonePath) =>
            handles[file_object].path = file_path

Next ==
    \/ \E file_path \in PathsOrNone : IoOpenFile(file_path)
    \/ \E file_object \in refs : IoCloseFile(handles[file_object].path, file_object)
    \/ \E variable_name \in Variables, file_path \in PathsOrNone,
          file_object \in 0..MaxHandles, shared \in BOOLEAN :
            /\ GoodArgs(file_path, file_object)
            /\ IoLoadVariable(variable_name, file_path, file_object, shared)
    \/ \E mod \in Guidebooks, variable_name \in Variables, file_path \in PathsOrNone,
          file_object \in 0..MaxHandles, shared \in BOOLEAN :
            /\ GoodArgs(file_path, file_object)
            /\ file_path # NonePath => IsMyFile(mod, file_path)
            /\ file_object # NoHandle => handles[file_object].mod = mod
            /\ GbLoadVariable(mod, variable_name, file_path, file_object, shared)

Spec == Init /\ [][Next]_vars


\* ------------------------------------------- dispatch over many file names
Pieces == {sMOD, sMYD, sCLAVRx, sHdf, sCtpBin, sDot, sSlash, <<"x">>}

RECURSIVE NamesUpTo(_)
NamesUpTo(k) ==
    IF k = 0 THEN {<<>>}
    ELSE LET shorter == NamesUpTo(k - 1)
         IN  shorter \cup {n \o p : n \in shorter, p \in Pieces}

Names == NamesUpTo(MaxPieces)

InitDispatch ==
    /\ listing \in Listings
    /\ handles = <<>>
    /\ refs = {}
    /\ last = NoLast
    /\ \E name \in Names :
          px = [kind |-> "dispatch", name |-> name, done |-> FALSE,
                matches |-> {}, res |-> DryResult("none", NoModule, <<>>)]

\* dry('guidebooks', 'is_my_file', name), and each guidebook's own answer
DispatchName ==
    /\ ~px.done
    /\ px' = [px EXCEPT !.done = TRUE,
                        !.matches = {g \in Guidebooks : IsMyFile(g, px.name)},
                        !.res = Dry(listing, px.name)]
    /\ UNCHANGED <<listing, handles, refs, last>>

SpecDispatch == InitDispatch /\ [][DispatchName]_vars

\* -------------------------------------- the HDF loaders over many datasets
RawValues  == {-9999, 0, 5}
Scales     == 1..MaxScale
Offsets    == 0..MaxOffset
FillValues == {-9999, 0}

AttrValues(a) ==
    CASE a = SCALE_ATTR_NAME      -> Scales
      [] a = ADD_OFFSET_ATTR_NAME -> Offsets
      [] a = FILL_VALUE_ATTR_NAME -> FillValues

AttrSets ==
    UNION { { f \in [S -> Scales \cup Offsets \cup FillValues] :
                \A a \in S : f[a] \in AttrValues(a) } :
            S \in SUBSET {SCALE_ATTR_NAME, ADD_OFFSET_ATTR_NAME, FILL_VALUE_ATTR_NAME} }

Cals == {NoCal} \cup {Cal(s, o, "int16") : s \in Scales, o \in Offsets}

InitHdfLoad ==
    /\ listing \in {l \in Listings : l[2].name = MODIS /\ l[3].name = CLAVRX}
    /\ handles = <<>>
    /\ refs = {}
    /\ last = NoLast
    /\ \E mod \in {MODIS, CLAVRX}, raw \in [1..NCells -> RawValues],
          attrs \in AttrSets, cal \in Cals :
          px = [kind |-> "hdf", mod |-> mod, ds |-> Dataset(raw, attrs, cal),
                shared |-> FALSE, done |-> FALSE, res |-> LoadResult("none", NoData)]

HdfLoadStep ==
    /\ ~px.done
    /\ \E shared \in BOOLEAN :
          px' = [px EXCEPT !.done = TRUE, !.shared = shared,
                           !.res = HdfReadVariable(px.mod, px.ds, shared)]
    /\ UNCHANGED <<listing, handles, refs, last>>

SpecHdfLoad == InitHdfLoad /\ [][HdfLoadStep]_vars

\* --------------------------- the binary product loader over many raw fields
InitCtpLoad ==
    /\ listing \in {l \in Listings : l[2].name = MODIS /\ l[3].name = CLAVRX}
    /\ refs = {1}
    /\ last = NoLast
    /\ \E variable_name \in ctp_names, pattern \in [1..NCells -> 1..4] :
          /\ px = [kind |-> "ctp", var |-> variable_name, pattern |-> pattern,
                   loads |-> 0, res |-> NoData]
          /\ handles = <<Handle(CTP, CtpPath, FALSE, CtpFile(pattern))>>

\* ctp_guidebook.load_variable_from_file(px.var, file_object=<the array>)
CtpLoadStep ==
    /\ px.loads < MaxLoads
    /\ LET r == LoadVariableFromFile(CTP, px.var, NonePath, 1, handles, FALSE)
       IN  /\ handles' = r.handles
           /\ px' = [px EXCEPT !.loads = @ + 1, !.res = r.data]
    /\ UNCHANGED <<listing, refs, last>>

SpecCtpLoad == InitCtpLoad /\ [][CtpLoadStep]_vars


\* ------------------------------------------------- load_aux_data, the masks
FLe(a, b) == ~a.nan /\ ~b.nan /\ a.v <= b.v
FGe(a, b) == ~a.nan /\ ~b.nan /\ a.v >= b.v

\* degrees
DAY_NIGHT_LINE_DEGREES == 84

\* the satellite zenith angles of the sample files, in degrees
SatZeniths == {0, 30, 60, 90}

\* sin(sin(zen * dtr) * fac) / dtr with re = 6371.03, altkm = 825,
\* fac = re / (re + altkm), dtr = 0.01745329; the result in thousandths of a
\* degree, at the sample angles
ScanAngleOf(zen) ==
    CASE zen = 0  -> 0
      [] zen = 30 -> 24543
      [] zen = 60 -> 39751
      [] zen = 90 -> 44355

satellite_zenith_angle_to_scan_angle(sat_zenith_data) ==
    [i \in DOMAIN sat_zenith_data |->
        IF sat_zenith_data[i].nan THEN NaN ELSE Num(ScanAngleOf(sat_zenith_data[i].v))]

Masks(day, night) == [day |-> day, night |-> night]

\* a day mask that takes the cells on the day/night line too   (mutant for C11)
HdfMasksDayInclusive(solar_zenith_data_temp, sat_zenith_data_temp, minimum_scan_angle) ==
    LET scan == satellite_zenith_angle_to_scan_angle(sat_zenith_data_temp)
        ok   == [i \in DOMAIN scan |-> FLe(scan[i], Num(minimum_scan_angle))]
    IN  Masks([i \in DOMAIN ok |-> FLe(solar_zenith_data_temp[i], Num(DAY_NIGHT_LINE_DEGREES)) /\ ok[i]],
              [i \in DOMAIN ok |-> FGe(solar_zenith_data_temp[i], Num(DAY_NIGHT_LINE_DEGREES)) /\ ok[i]])

\* masks built without the scan angle   (mutant for C12)
HdfMasksNoScanFilter(solar_zenith_data_temp, sat_zenith_data_temp, minimum_scan_angle) ==
    Masks([i \in DOMAIN solar_zenith_data_temp |->
              FLt(solar_zenith_data_temp[i], Num(DAY_NIGHT_LINE_DEGREES))],
          [i \in DOMAIN solar_zenith_data_temp |->
              FGe(solar_zenith_data_temp[i], Num(DAY_NIGHT_LINE_DEGREES))])

\* modis_guidebook and clavrx_guidebook: the same four lines
HdfBuildMasks(solar_zenith_data_temp, sat_zenith_data_temp, minimum_scan_angle) ==
    LET scan_angle_data_temp == satellite_zenith_angle_to_scan_angle(sat_zenith_data_temp)
        ok_scan_angle ==
            [i \in DOMAIN scan_angle_data_temp |->
                FLe(scan_angle_data_temp[i], Num(minimum_scan_angle))]
    IN  Masks([i \in DOMAIN ok_scan_angle |->
                  FLt(solar_zenith_data_temp[i], Num(DAY_NIGHT_LINE_DEGREES)) /\ ok_scan_angle[i]],
              [i \in DOMAIN ok_scan_angle |->
                  FGe(solar_zenith_data_temp[i], Num(DAY_NIGHT_LINE_DEGREES)) /\ ok_scan_angle[i]])

\* a night mask that is the complement of the day mask   (mutant for C13)
CtpMasksNightIsNotDay(day_night_flag) ==
    Masks([i \in DOMAIN day_night_flag |-> FEq(day_night_flag[i], Num(10))],
          [i \in DOMAIN day_night_flag |-> ~FEq(day_night_flag[i], Num(10))])

\* ctp_guidebook: day_night_flag == 1, day_night_flag == 2 (the flag in tenths)
CtpBuildMasks(day_night_flag) ==
    Masks([i \in DOMAIN day_night_flag |-> FEq(day_night_flag[i], Num(10))],
          [i \in DOMAIN day_night_flag |-> FEq(day_night_flag[i], Num(20))])

\* the variables load_aux_data loads, in the order it loads them
AuxNames(mod) ==
    CASE mod = MODIS  -> <<"Longitude", "Latitude",
                           "Solar_Zenith", "Sensor_Zenith">>
      [] mod = CLAVRX -> <<"longitude", "latitude",
                           "solar_zenith_angle", "sensor_zenith_angle">>
      [] mod = CTP    -> <<LONGITUDE_NAME, LATITUDE_NAME, DAY_NIGHT_FLAG_NAME>>

\* file_object, <buffer> = load_variable_from_file(name, file_path=file_path,
\* file_object=file_object), once per name; an exception ends the sequence
\* (r ranges over the one result of the call, so that it is computed once)
RECURSIVE LoadEach(_, _, _, _, _, _, _, _)
LoadEach(mod, names, i, file_path, file_object, hs, shared, bufs) ==
    IF i > Len(names)
    THEN [err |-> "none", file_object |-> file_object, handles |-> hs, bufs |-> bufs]
    ELSE CHOOSE rest \in
            { IF r.err # "none"
              THEN [err |-> r.err, file_object |-> NoHandle, handles |-> r.handles, bufs |-> bufs]
              ELSE LoadEach(mod, names, i + 1, file_path, r.file_object, r.handles,
                            shared, Append(bufs, r.data))
              : r \in {LoadVariableFromFile(mod, names[i], file_path, file_object, hs, shared)} } :
            TRUE

NoAux == [lon |-> NoData, lat |-> NoData, day_mask |-> NoData, night_mask |-> NoData]
AuxResult(err, file_object, aux_data_sets, hs) ==
    [err |-> err, file_object |-> file_object, aux |-> aux_data_sets, handles |-> hs]

LoadAuxData(mod, file_path, minimum_scan_angle, file_object, hs, shared) ==
    CHOOSE result \in
       { IF l.err # "none"
         THEN AuxResult(l.err, NoHandle, NoAux, l.handles)
         ELSE LET masks == IF mod = CTP
                           THEN CtpBuildMasks(l.bufs[3])
                           ELSE HdfBuildMasks(l.bufs[3], l.bufs[4], minimum_scan_angle)
              IN  AuxResult("none", l.file_object,
                            [lon |-> l.bufs[1], lat |-> l.bufs[2],
                             day_mask |-> masks.day, night_mask |-> masks.night],
                            l.handles)
         : l \in {LoadEach(mod, AuxNames(mod), 1, file_path, file_object, hs, shared, <<>>)} } :
       TRUE

\* ---------------------------------- load_aux_data over many auxiliary files
FlagCells == 4

SolarZeniths  == {83, 84, 85}
AuxFill       == -9999
MinScanAngles == {0, 24543, 40000}
DayNightFlags == {0, 10, 20, 30}

\* an HDF file with the four auxiliary datasets, none of them scaled
HdfAuxFile(mod, solar, sat) ==
    [n \in {AuxNames(mod)[k] : k \in 1..4} |->
        CASE n = AuxNames(mod)[3] -> Dataset(solar, [a \in {FILL_VALUE_ATTR_NAME} |-> AuxFill], NoCal)
          [] n = AuxNames(mod)[4] -> Dataset(sat, [a \in {FILL_VALUE_ATTR_NAME} |-> AuxFill], NoCal)
          [] OTHER                -> Dataset([i \in DOMAIN solar |-> 10 * i], NoAttrs, NoCal)]

\* a binary file whose records carry the given day/night flags
CtpAuxFile(flags) ==
    [n \in ctp_names |->
        IF n = DAY_NIGHT_FLAG_NAME
        THEN [i \in DOMAIN flags |-> Num(flags[i])]
        ELSE [i \in DOMAIN flags |-> Num(0)]]

AuxPx(file_path, file, minimum_scan_angle, file_object) ==
    [kind |-> "aux", path |-> file_path, file |-> file, min_scan |-> minimum_scan_angle,
     fo_in |-> file_object,
     done |-> FALSE, mod |-> NoModule, res |-> AuxResult("none", NoHandle, NoAux, <<>>)]

\* the caller either has no file object yet, or holds the one that
\* io_manager.open_file(px.path) returned
InitAux ==
    /\ listing \in {l \in Listings : l[2].name = MODIS /\ l[3].name = CLAVRX}
    /\ last = NoLast
    /\ \E minimum_scan_angle \in MinScanAngles, file_object \in {NoHandle, 1} :
          /\ \/ \E file_path \in {AuxModisPath, AuxClavrxPath},
                   solar \in [1..NCells -> SolarZeniths \cup {AuxFill}],
                   sat \in [1..NCells -> SatZeniths \cup {AuxFill}] :
                      px = AuxPx(file_path,
                                 HdfAuxFile(IF file_path = AuxModisPath THEN MODIS ELSE CLAVRX,
                                            solar, sat),
                                 minimum_scan_angle, file_object)
             \/ \E flags \in [1..FlagCells -> DayNightFlags] :
                      px = AuxPx(AuxCtpPath, CtpAuxFile(flags), minimum_scan_angle, file_object)
          /\ handles = IF file_object = NoHandle
                       THEN <<>>
                       ELSE OpenFile(Dry(listing, px.path).mod, px.path, <<>>)
          /\ refs = {file_object} \ {NoHandle}

\* io_manager.load_aux_data(px.path, px.min_scan, file_object=px.fo_in)
IoLoadAuxData ==
    /\ ~px.done
    /\ \E shared \in BOOLEAN :
          LET d == Dry(listing, px.path)
          IN  IF d.err # "none"
              THEN /\ px' = [px EXCEPT !.done = TRUE,
                                       !.res = AuxResult(d.err, NoHandle, NoAux, handles)]
                   /\ UNCHANGED <<handles, refs>>
              ELSE LET r == LoadAuxData(d.mod, px.path, px.min_scan, px.fo_in, handles, shared)
                   IN  /\ px' = [px EXCEPT !.done = TRUE, !.mod = d.mod, !.res = r]
                       /\ handles' = r.handles
                       /\ refs' = IF r.err = "none" THEN refs \cup {r.file_object} ELSE refs
    /\ UNCHANGED <<listing, last>>

SpecAux == InitAux /\ [][IoLoadAuxData]_vars


\* ------------------------------------------------- the variable name tables
\* CALLER_VARIABLE_MAP, DATA_TYPE_TO_USE and EXPECTED_VARIABLES_IN_FILE of the
\* modis and clavrx guidebooks, their *_NAME constants written out as the
\* strings they stand for, and of the ctp guidebook

\* the key that the string literal above 'ctp1km' joins with it: Python
\* concatenates adjacent literals, so the table has this key and no 'ctp1km'
TodoCtp1kmKey == "TODO, this won't work for cloud effective radius [...] ctp1km"

ModisCallerVariableMap ==
    ("cloud phase"                :> "Cloud_Phase_Infrared") @@
    ("cloud_phase_infrared"       :> "Cloud_Phase_Infrared") @@
    ("irphase"                    :> "Cloud_Phase_Infrared") @@
    ("cloud top temperature"      :> "Cloud_Top_Temperature") @@
    ("ctt5km"                     :> "Cloud_Top_Temperature") @@
    ("cloud_top_temperature"      :> "Cloud_Top_Temperature") @@
    ("cloud top pressure"         :> "Cloud_Top_Pressure") @@
    ("ctp5km"                     :> "Cloud_Top_Pressure") @@
    ("pressure"                   :> "Cloud_Top_Pressure") @@
    ("effective cloud emissivity" :> "Cloud_Effective_Emissivity") @@
    (TodoCtp1kmKey                :> "cloud_top_pressure_1km") @@
    ("ctt1km"                     :> "cloud_top_temperature_1km") @@
    ("re16"                       :> "Cloud_Effective_Radius_16") @@
    ("cloud_effective_radius_16"  :> "Cloud_Effective_Radius_16") @@
    ("re37"                       :> "Cloud_Effective_Radius_37") @@
    ("cloud_effective_radius_37"  :> "Cloud_Effective_Radius_37") @@
    ("tau"                        :> "Cloud_Optical_Thickness") @@
    ("cloud_optical_thickness"    :> "Cloud_Optical_Thickness") @@
    ("optical thickness"          :> "Cloud_Optical_Thickness") @@
    ("cwp"                        :> "Cloud_Water_Path") @@
    ("cloud_water_path"           :> "Cloud_Water_Path") @@
    ("cloud water path"           :> "Cloud_Water_Path") @@
    ("retphase"                   :> "Quality_Assurance_1km") @@
    ("retrieval phase"            :> "Quality_Assurance_1km") @@
    ("retqflag"                   :> "Quality_Assurance_1km") @@
    ("retrieval_quality_flag"     :> "Quality_Assurance_1km") @@
    ("latitude"                   :> "Latitude") @@
    ("lat"                        :> "Latitude") @@
    ("longitude"                  :> "Longitude") @@
    ("lon"                        :> "Longitude") @@
    ("solar zenith"               :> "Solar_Zenith") @@
    ("sunzen"                     :> "Solar_Zenith") @@
    ("sensor zenith"              :> "Sensor_Zenith") @@
    ("satzen"                     :> "Sensor_Zenith") @@
    ("viewing zenith"             :> "Sensor_Zenith") @@
    ("multilayer"                 :> "Cloud_Multi_Layer_Flag") @@
    ("cloud_multi_layer_flag"     :> "Cloud_Multi_Layer_Flag") @@
    ("overlap"                    :> "Cloud_Multi_Layer_Flag") @@
    ("variance"                   :> "Radiance_Variance") @@
    ("radiance_variance"          :> "Radiance_Variance") @@
    ("radiance_variability"       :> "Radiance_Variance") @@
    ("brightness_temperature"     :> "Brightness_Temperature") @@
    ("bt"                         :> "Brightness_Temperature")

ClavrxCallerVariableMap ==
    ("latitude"       :> "latitude") @@
    ("lat"            :> "latitude") @@
    ("longitude"      :> "longitude") @@
    ("lon"            :> "longitude") @@
    ("solar zenith"   :> "solar_zenith_angle") @@
    ("sunzen"         :> "solar_zenith_angle") @@
    ("sensor zenith"  :> "sensor_zenith_angle") @@
    ("satzen"         :> "sensor_zenith_angle") @@
    ("viewing zenith" :> "sensor_zenith_angle") @@
    ("cloud mask"     :> "cloud_mask") @@
    ("cloud height"   :> "cloud_type") @@
    ("cloud type"     :> "cld_height_acha")

CtpCallerVariableMap ==
    ("latitude"               :> LATITUDE_NAME) @@
    ("lat"                    :> LATITUDE_NAME) @@
    ("longitude"              :> LONGITUDE_NAME) @@
    ("lon"                    :> LONGITUDE_NAME) @@
    ("cloud top pressure"     :> CLOUD_TOP_PRESS_NAME) @@
    ("pressure"               :> CLOUD_TOP_PRESS_NAME) @@
    ("cloud top height"       :> CLOUD_TOP_HEIGHT_NAME) @@
    ("height"                 :> CLOUD_TOP_HEIGHT_NAME) @@
    ("cloud top temperature"  :> CLOUD_TOP_TEMP_NAME) @@
    ("ctt5km"                 :> CLOUD_TOP_TEMP_NAME) @@
    ("cloud_top_temperature"  :> CLOUD_TOP_TEMP_NAME) @@
    ("amount"                 :> EFFECTIVE_CLOUD_AMOUNT_NAME) @@
    ("cloud amount"           :> EFFECTIVE_CLOUD_AMOUNT_NAME) @@
    ("effective cloud amount" :> EFFECTIVE_CLOUD_AMOUNT_NAME)

ModisDataTypeToUse ==
    [n \in {"Cloud_Phase_Infrared",
            "Cloud_Top_Temperature",
            "Cloud_Top_Pressure",
            "Cloud_Effective_Emissivity",
            "cloud_top_pressure_1km",
            "cloud_top_temperature_1km",
            "Cloud_Effective_Radius_16",
            "Cloud_Effective_Radius_37",
            "Cloud_Optical_Thickness",
            "Cloud_Water_Path",
            "Quality_Assurance_1km",
            "Latitude",
            "Longitude",
            "Solar_Zenith",
            "Sensor_Zenith",
            "Cloud_Multi_Layer_Flag",
            "Radiance_Variance",
            "Brightness_Temperature"} |-> "float32"]

ClavrxDataTypeToUse ==
    [n \in {"latitude",
            "longitude",
            "solar_zenith_angle",
            "sensor_zenith_angle",
            "cloud_mask",
            "cloud_type",
            "cld_height_acha"} |-> "float32"]

ModisExpectedVariablesInFile == {"Cloud_Top_Pressure"}
ClavrxExpectedVariablesInFile == {"cloud_mask"}
CtpExpectedVariablesInFile == ctp_names

CALLER_VARIABLE_MAP(mod) ==
    CASE mod = MODIS  -> ModisCallerVariableMap
      [] mod = CLAVRX -> ClavrxCallerVariableMap
      [] mod = CTP    -> CtpCallerVariableMap

\* a metadata table without the default variables   (mutant for C16)
DataTypesWithoutDefaults(mod) ==
    IF mod = MODIS
    THEN [n \in DOMAIN ModisDataTypeToUse \ {"Cloud_Top_Pressure"} |-> "float32"]
    ELSE [n \in DOMAIN ClavrxDataTypeToUse \ {"cloud_mask"} |-> "float32"]

\* only the two HDF guidebooks define the table
DATA_TYPE_TO_USE(mod) ==
    IF mod = MODIS THEN ModisDataTypeToUse ELSE ClavrxDataTypeToUse

EXPECTED_VARIABLES_IN_FILE(mod) ==
    CASE mod = MODIS  -> ModisExpectedVariablesInFile
      [] mod = CLAVRX -> ClavrxExpectedVariablesInFile
      [] mod = CTP    -> CtpExpectedVariablesInFile

\* a request none of whose names is known answered like no request   (mutant for C14)
GetVariableNamesOrDefault(mod, user_requested_names) ==
    LET known == user_requested_names \cap DOMAIN CALLER_VARIABLE_MAP(mod)
    IN  IF known = {}
        THEN EXPECTED_VARIABLES_IN_FILE(mod)
        ELSE {CALLER_VARIABLE_MAP(mod)[user_name] : user_name \in known}

\* <guidebook>.get_variable_names(user_requested_names); the request, a list
\* in the code, is the set of its names: the loop adds to a set
GetVariableNames(mod, user_requested_names) ==
    IF user_requested_names = {}
    THEN EXPECTED_VARIABLES_IN_FILE(mod)
    ELSE {CALLER_VARIABLE_MAP(mod)[user_name] :
             user_name \in {n \in user_requested_names : n \in DOMAIN CALLER_VARIABLE_MAP(mod)}}

\* ------------------------------------ get_variable_names over many requests
MaxRequest == 2

\* names no table has: an unknown name, the key the modis table lost, and
\* two spellings of keys in other letter case
OtherNames == {"no such name", "ctp1km", "LAT", "Latitude"}
RequestNames(mod) == DOMAIN CALLER_VARIABLE_MAP(mod) \cup OtherNames
RECURSIVE RequestsUpTo(_, _)
RequestsUpTo(names, k) ==
    IF k = 0 THEN {{}}
    ELSE LET fewer == RequestsUpTo(names, k - 1)
         IN  fewer \cup {r \cup {n} : r \in fewer, n \in names}
Requests(mod) == RequestsUpTo(RequestNames(mod), MaxRequest)

PathOf(mod) ==
    CASE mod = MODIS  -> ModisPath
      [] mod = CLAVRX -> ClavrxPath
      [] mod = CTP    -> CtpPath

InitNames ==
    /\ listing \in {l \in Listings : l[2].name = MODIS /\ l[3].name = CLAVRX}
    /\ handles = <<>>
    /\ refs = {}
    /\ last = NoLast
    /\ \E mod \in Guidebooks : \E user_requested_names \in Requests(mod) :
          px = [kind |-> "names", path |-> PathOf(mod), requested |-> user_requested_names,
                done |-> FALSE, mod |-> NoModule, err |-> "none", res |-> {}]

\* general_guidebook.get_variable_names(px.path, px.requested)
GgGetVariableNames ==
    /\ ~px.done
    /\ LET d == Dry(listing, px.path)
       IN  px' = [px EXCEPT !.done = TRUE, !.mod = d.mod, !.err = d.err,
                            !.res = IF d.err = "none"
                                    THEN GetVariableNames(d.mod, px.requested)
                                    ELSE {}]
    /\ UNCHANGED <<listing, handles, refs, last>>

SpecNames == InitNames /\ [][GgGetVariableNames]_vars

\* ------------------------------------------- file names: tokens and strptime
DigitVal(c) ==
    CASE c = "0" -> 0 [] c = "1" -> 1 [] c = "2" -> 2 [] c = "3" -> 3 [] c = "4" -> 4
      [] c = "5" -> 5 [] c = "6" -> 6 [] c = "7" -> 7 [] c = "8" -> 8 [] c = "9" -> 9
IsDigits(text) == \A i \in 1..Len(text) : text[i] \in {"0", "1", "2", "3", "4", "5", "6", "7", "8", "9"}
RECURSIVE NumVal(_)
NumVal(text) ==
    IF text = <<>> THEN 0
    ELSE 10 * NumVal(SubSeq(text, 1, Len(text) - 1)) + DigitVal(text[Len(text)])

\* temp_name_string.split('.'): temp[j] of the code is Split(s)[j + 1]
Split(s) ==
    LET dots == {i \in 1..Len(s) : s[i] = "."}
        n    == Cardinality(dots)
        Dot(k) == IF k = 0 THEN 0
                  ELSE IF k > n THEN Len(s) + 1
                  ELSE CHOOSE d \in dots : Cardinality({e \in dots : e <= d}) = k
    IN  [k \in 1..(n + 1) |-> SubSeq(s, Dot(k - 1) + 1, Dot(k) - 1)]

NoneValue == <<>>
Parsed(err, value) == [err |-> err, value |-> value]

\* the formats, a sequence of directives and literal characters each
ModisFormat  == <<"A", "%Y", "%j", "%H", "%M">>
ClavrxFormat == <<"%y", "%j", "%H", "%M">>
CtpFormat    == <<"D", "%y", "%j", "S", "%H", "%M">>

\* the lengths the regular expression of a directive tries, in its order
FieldLens(directive) ==
    CASE directive = "%Y" -> <<4>>
      [] directive = "%y" -> <<2>>
      [] directive = "%j" -> <<3, 2, 1>>
      [] directive = "%H" -> <<2, 1>>
      [] directive = "%M" -> <<2, 1>>
      [] OTHER            -> <<1>>

\* the texts the regular expression of a directive matches (the letters of
\* the sample names are upper case, as the literals of the formats are)
FieldOk(directive, text) ==
    CASE directive \in {"%Y", "%y"} -> IsDigits(text)
      [] directive = "%j" -> IsDigits(text) /\ NumVal(text) >= 1 /\ NumVal(text) <= 366
      [] directive = "%H" -> IsDigits(text) /\ NumVal(text) <= 23
      [] directive = "%M" -> IsDigits(text) /\ NumVal(text) <= 59
      [] OTHER            -> text = <<directive>>

\* a two-digit year always taken as 19xx   (mutant for C18)
SetFieldNineteen(found, directive, text) ==
    CASE directive = "%Y" -> [found EXCEPT !.year = NumVal(text)]
      [] directive = "%y" -> [found EXCEPT !.year = 1900 + NumVal(text)]
      [] directive = "%j" -> [found EXCEPT !.julian = NumVal(text)]
      [] directive = "%H" -> [found EXCEPT !.hour = NumVal(text)]
      [] directive = "%M" -> [found EXCEPT !.minute = NumVal(text)]
      [] OTHER            -> found

\* %y: values 69-99 are 1969-1999, values 0-68 are 2000-2068
SetField(found, directive, text) ==
    CASE directive = "%Y" -> [found EXCEPT !.year = NumVal(text)]
      [] directive = "%y" -> [found EXCEPT !.year = IF NumVal(text) <= 68
                                                    THEN 2000 + NumVal(text)
                                                    ELSE 1900 + NumVal(text)]
      [] directive = "%j" -> [found EXCEPT !.julian = NumVal(text)]
      [] directive = "%H" -> [found EXCEPT !.hour = NumVal(text)]
      [] directive = "%M" -> [found EXCEPT !.minute = NumVal(text)]
      [] OTHER            -> found

\* format_regex.match(data_string): the first match in the order of the
\* alternatives, with backtracking
RECURSIVE MatchFrom(_, _, _, _, _), TryLens(_, _, _, _, _, _)
MatchFrom(s, pos, format, k, found) ==
    IF k > Len(format)
    THEN [ok |-> TRUE, end |-> pos, found |-> found]
    ELSE TryLens(s, pos, format, k, found, FieldLens(format[k]))
TryLens(s, pos, format, k, found, lens) ==
    IF lens = <<>>
    THEN [ok |-> FALSE, end |-> pos, found |-> found]
    ELSE LET text == SubSeq(s, pos, pos + Head(lens) - 1)
             r == IF pos + Head(lens) - 1 <= Len(s) /\ FieldOk(format[k], text)
                  THEN MatchFrom(s, pos + Head(lens), format, k + 1,
                                 SetField(found, format[k], text))
                  ELSE [ok |-> FALSE, end |-> pos, found |-> found]
         IN  IF r.ok THEN r ELSE TryLens(s, pos, format, k, found, Tail(lens))

\* datetime.strptime(data_string, format): ValueError when the string does
\* not match the format and when unconverted data remains; the datetime is
\* held as <<year, day of year, hour, minute>>
Strptime(data_string, format) ==
    LET r == MatchFrom(data_string, 1, format, 1,
                       [year |-> 1900, julian |-> 1, hour |-> 0, minute |-> 0])
    IN  IF ~r.ok \/ r.end # Len(data_string) + 1
        THEN Parsed("ValueError", NoneValue)
        ELSE Parsed("none", <<r.found.year, r.found.julian, r.found.hour, r.found.minute>>)

\* strptime(temp[i] + temp[j], format), with the indices of the code
StrptimeTokens(temp, i, j, format) ==
    IF Len(temp) <= i \/ Len(temp) <= j
    THEN Parsed("IndexError", NoneValue)
    ELSE Strptime(temp[i + 1] \o temp[j + 1], format)

ParseDatetimeFromFilename(mod, file_name_string) ==
    LET temp_name_string == CleanOffPath(file_name_string)
        temp == Split(temp_name_string)
    IN  CASE mod = MODIS ->
                IF StartsWith(temp_name_string, sMYD) \/ StartsWith(temp_name_string, sMOD)
                THEN StrptimeTokens(temp, 1, 2, ModisFormat)
                ELSE Parsed("none", NoneValue)
          [] mod = CLAVRX -> StrptimeTokens(temp, 2, 3, ClavrxFormat)
          [] mod = CTP    -> StrptimeTokens(temp, 3, 4, CtpFormat)

\* ------------------------------------------------ file names: the satellite
SAT_AQUA    == "SAT_AQUA"
SAT_TERRA   == "SAT_TERRA"
SAT_NOAA_15 == "SAT_NOAA_15"
SAT_NOAA_16 == "SAT_NOAA_16"
SAT_NOAA_17 == "SAT_NOAA_17"
SAT_NOAA_18 == "SAT_NOAA_18"
SAT_NOAA_19 == "SAT_NOAA_19"
SAT_METOP_A == "SAT_METOP_A"
SAT_METOP_B == "SAT_METOP_B"
INST_MODIS  == "INST_MODIS"
INST_HIRS   == "INST_HIRS"

tA1 == <<"a", "1">>
tT1 == <<"t", "1">>

\* the literal names 'NK' twice, with the same value
SAT_LOOKUP ==
    (<<"N", "K">> :> SAT_NOAA_15) @@
    (<<"N", "L">> :> SAT_NOAA_16) @@
    (<<"N", "M">> :> SAT_NOAA_17) @@
    (<<"N", "N">> :> SAT_NOAA_18) @@
    (<<"N", "P">> :> SAT_NOAA_19) @@
    (<<"N", "K">> :> SAT_NOAA_15) @@
    (<<"M", "2">> :> SAT_METOP_A) @@
    (<<"M", "1">> :> SAT_METOP_B)

ModisGetSatellite(data_file_name_string) ==
    LET temp_name_string == CleanOffPath(data_file_name_string)
    IN  IF StartsWith(temp_name_string, sMYD) THEN Parsed("none", <<SAT_AQUA, INST_MODIS>>)
        ELSE IF StartsWith(temp_name_string, sMOD) THEN Parsed("none", <<SAT_TERRA, INST_MODIS>>)
        ELSE Parsed("none", <<"None", "None">>)

ClavrxGetSatellite(data_file_name_string) ==
    LET temp == Split(CleanOffPath(data_file_name_string))
    IN  IF Len(temp) <= 1 THEN Parsed("IndexError", NoneValue)
        ELSE IF temp[2] = tA1 THEN Parsed("none", <<SAT_AQUA, INST_MODIS>>)
        ELSE IF temp[2] = tT1 THEN Parsed("none", <<SAT_TERRA, INST_MODIS>>)
        ELSE Parsed("NotImplementedError", NoneValue)

\* a lookup that answers an unknown code with no satellite   (mutant for C19)
CtpGetSatelliteOrNone(data_file_name_string) ==
    LET temp == Split(CleanOffPath(data_file_name_string))
    IN  IF Len(temp) <= 3 THEN Parsed("IndexError", NoneValue)
        ELSE IF temp[4] \in DOMAIN SAT_LOOKUP
             THEN Parsed("none", <<SAT_LOOKUP[temp[4]], INST_HIRS>>)
             ELSE Parsed("none", <<"None", "None">>)

CtpGetSatellite(data_file_name_string) ==
    LET temp == Split(CleanOffPath(data_file_name_string))
    IN  IF Len(temp) <= 3 THEN Parsed("IndexError", NoneValue)
        ELSE IF temp[4] \in DOMAIN SAT_LOOKUP
             THEN Parsed("none", <<SAT_LOOKUP[temp[4]], INST_HIRS>>)
             ELSE Parsed("KeyError", NoneValue)

GetSatelliteFromFilename(mod, data_file_name_string) ==
    CASE mod = MODIS  -> ModisGetSatellite(data_file_name_string)
      [] mod = CLAVRX -> ClavrxGetSatellite(data_file_name_string)
      [] mod = CTP    -> CtpGetSatellite(data_file_name_string)

\* ----------------------------------------- the two calls over many file names
MaxTokens == 3

tMOD06       == sMOD \o <<"0", "6">>
tMYD06       == sMYD \o <<"0", "6">>
tNSS         == <<"N", "S", "S">>
tHIRX        == <<"H", "I", "R", "X">>
tCtp         == <<"c", "t", "p">>
tBin         == <<"b", "i", "n">>
tA2014015    == <<"A", "2", "0", "1", "4", "0", "1", "5">>
t1230        == <<"1", "2", "3", "0">>
t14015       == <<"1", "4", "0", "1", "5">>
tD14015      == <<"D">> \o t14015
tS1230       == <<"S">> \o t1230
tD14015S1230 == tD14015 \o tS1230
tEmpty       == <<>>
tX9          == <<"x", "9">>

\* '.'.join(tokens)
RECURSIVE Join(_)
Join(tokens) ==
    IF Len(tokens) = 0 THEN <<>>
    ELSE IF Len(tokens) = 1 THEN tokens[1]
    ELSE tokens[1] \o sDot \o Join(Tail(tokens))

RECURSIVE TokensUpTo(_, _)
TokensUpTo(tokens, k) ==
    IF k = 0 THEN {<<>>}
    ELSE LET shorter == TokensUpTo(tokens, k - 1)
         IN  shorter \cup {Append(m, t) : m \in shorter, t \in tokens}

ModisTokens  == {tA2014015, t1230, t14015, tEmpty, tX9}
ClavrxTokens == {tA1, tT1, t14015, t1230, tEmpty, tX9}
CtpTokens    == DOMAIN SAT_LOOKUP \cup {tD14015S1230, tD14015, tS1230, tEmpty, tX9}

\* names each of which one guidebook accepts: MOD06.<...>.hdf, MYD06.<...>.hdf,
\* CLAVRx.<...>.hdf, NSS.HIRX.<...>.ctp.bin
FileNames ==
    {Join(<<first>> \o m \o <<sHdf>>) :
        first \in {tMOD06, tMYD06}, m \in TokensUpTo(ModisTokens, MaxTokens)}
    \cup {Join(<<sCLAVRx>> \o m \o <<sHdf>>) : m \in TokensUpTo(ClavrxTokens, MaxTokens)}
    \cup {Join(<<tNSS, tHIRX>> \o m \o <<tCtp, tBin>>) : m \in TokensUpTo(CtpTokens, MaxTokens)}

NotCalled == Parsed("not called", NoneValue)

InitFileName ==
    /\ listing \in {l \in Listings : l[2].name = MODIS /\ l[3].name = CLAVRX}
    /\ handles = <<>>
    /\ refs = {}
    /\ last = NoLast
    /\ \E name \in FileNames :
          px = [kind |-> "filename", name |-> name, mod |-> NoModule,
                dt |-> NotCalled, sat |-> NotCalled]

\* general_guidebook.parse_datetime_from_filename(px.name)
GgParseDatetime ==
    /\ px.dt = NotCalled
    /\ LET d == Dry(listing, px.name)
       IN  px' = [px EXCEPT !.mod = d.mod,
                            !.dt = IF d.err = "none"
                                   THEN ParseDatetimeFromFilename(d.mod, px.name)
                                   ELSE Parsed(d.err, NoneValue)]
    /\ UNCHANGED <<listing, handles, refs, last>>

\* general_guidebook.get_satellite_from_filename(px.name)
GgGetSatellite ==
    /\ px.sat = NotCalled
    /\ LET d == Dry(listing, px.name)
       IN  px' = [px EXCEPT !.mod = d.mod,
                            !.sat = IF d.err = "none"
                                    THEN GetSatelliteFromFilename(d.mod, px.name)
                                    ELSE Parsed(d.err, NoneValue)]
    /\ UNCHANGED <<listing, handles, refs, last>>

NextFileName == GgParseDatetime \/ GgGetSatellite

SpecFileName == InitFileName /\ [][NextFileName]_vars

\* ------------------------------------------------- what the exceptions say
\* the message of the exception a call ends with, given the arguments of the
\* call: only "Variable <name> is not present in file <str(file_path)> ."
\* shows a path, the argument as it was passed; the binary product names the
\* missing field; raise RuntimeError, raise NotImplementedError, the assert,
\* "File path or file object must be given to load file." and the
\* AttributeError of os.path.basename(None) show neither
ErrorMessage(err, variable_name, file_path) ==
    CASE err = "VariableNotFound" -> [path |-> file_path, token |-> variable_name]
      [] err = "FieldNotFound"    -> [path |-> <<>>, token |-> variable_name]
      [] OTHER                    -> [path |-> <<>>, token |-> ""]


\* ------------------------------------------ dispatch and the module search path
MaxCalls == 4

\* relpath = os.path.dirname(__file__) + "/" + path; sys.path.insert(0, relpath)
SysPathInsert(sys_path, path) == <<"stg/" \o path>> \o sys_path

\* the interpreter's search path before the first dispatch
StartSysPaths == {<<>>, <<"">>, <<"", "site-packages">>}

InitSysPath ==
    /\ listing \in Listings
    /\ handles = <<>>
    /\ refs = {}
    /\ last = NoLast
    /\ \E start \in StartSysPaths :
          px = [kind |-> "syspath", start |-> start, sys_path |-> start,
                calls |-> 0, res |-> DryResult("none", NoModule, <<>>)]

\* one call dry('guidebooks', 'is_my_file', test_data): the insert comes
\* first, so it happens whether the scan returns a module or raises
DryCall ==
    /\ px.calls < MaxCalls
    /\ \E test_data \in PathsOrNone :
          px' = [px EXCEPT !.sys_path = SysPathInsert(px.sys_path, "guidebooks"),
                           !.calls = px.calls + 1,
                           !.res = Dry(listing, test_data)]
    /\ UNCHANGED <<listing, handles, refs, last>>

SpecSysPath == InitSysPath /\ [][DryCall]_vars


\* ------------------------------------- repeated loads through one file object
MaxReloads == 3

\* the variables loaded again and again: every dataset of the HDF samples; of
\* the binary product a field with a fill constant, one with a float range
\* and one with a flag range
ReloadNames(mod) ==
    IF mod = CTP
    THEN {CLOUD_TOP_PRESS_NAME, LATITUDE_NAME, DAY_NIGHT_FLAG_NAME}
    ELSE DOMAIN Disk(PathOf(mod))

\* what <guidebook>.open_file returns for the file under study
FreshHandle(mod, pattern) ==
    IF mod = CTP
    THEN <<Handle(CTP, CtpPath, FALSE, CtpFile(pattern))>>
    ELSE OpenFile(mod, PathOf(mod), <<>>)

InitReload ==
    /\ listing \in {l \in Listings : l[2].name = MODIS /\ l[3].name = CLAVRX}
    /\ refs = {1}
    /\ last = NoLast
    /\ \E mod \in Guidebooks, pattern \in [1..NCells -> 1..4] :
          /\ mod # CTP => \A i \in 1..NCells : pattern[i] = 1
          /\ px = [kind |-> "reload", mod |-> mod, pattern |-> pattern,
                   seq |-> <<>>, res |-> NoData]
          /\ handles = FreshHandle(mod, pattern)

\* <guidebook>.load_variable_from_file(variable_name, file_object=<the handle>)
ReloadStep ==
    /\ Len(px.seq) < MaxReloads
    /\ \E variable_name \in ReloadNames(px.mod), shared \in BOOLEAN :
          LET r == LoadVariableFromFile(px.mod, variable_name, NonePath, 1, handles, shared)
          IN  /\ handles' = r.handles
              /\ px' = [px EXCEPT !.seq = Append(@, variable_name), !.res = r.data]
    /\ UNCHANGED <<listing, refs, last>>

SpecReload == InitReload /\ [][ReloadStep]_vars

\* ------------------------------------------------------------------ claims
IoOps   == {"open_file", "close_file", "load_variable_from_file"}
LoadOps == {"load_variable_from_file", "guidebook.load_variable_from_file"}

\* C1: every io_manager call either runs with a guidebook whose is_my_file
\* accepts the path, or raises without a guidebook, without opening a file and
\* without data; every file object was opened by a guidebook that claims its file.
C1_DispatchClaimsFile ==
    /\ last.op \in IoOps =>
          IF last.mod = NoModule
          THEN /\ last.err \in {"RuntimeError", "AttributeError"}
               /\ last.fo = NoHandle
               /\ last.data = NoData
          ELSE /\ last.mod \in Guidebooks
               /\ IsMyFile(last.mod, last.path)
    /\ (last.op \in IoOps /\ last.path # NonePath
            /\ \A g \in Guidebooks : ~IsMyFile(g, last.path)) => last.err = "RuntimeError"
    /\ \A h \in 1..Len(handles) : IsMyFile(handles[h].mod, handles[h].path)

C1_Witness ==
    /\ last.op = "open_file" /\ last.err = "none"
    /\ last.mod = CLAVRX /\ last.path = ClavrxPath
    /\ last.fo \in refs /\ handles[last.fo].open

\* C2: at most one of the three is_my_file predicates accepts a file name, and
\* a name of a supported pattern is accepted by its own guidebook only.
C2_OneMatchAtMost ==
    (px.kind = "dispatch" /\ px.done) =>
        LET base == CleanOffPath(px.name)
        IN  /\ Cardinality(px.matches) <= 1
            /\ ((StartsWith(base, sMOD) \/ StartsWith(base, sMYD)) /\ EndsWith(base, sHdf))
                    => px.matches = {MODIS}
            /\ (StartsWith(base, sCLAVRx) /\ EndsWith(base, sHdf)) => px.matches = {CLAVRX}
            /\ EndsWith(base, sCtpBin) => px.matches = {CTP}

C2_Witness ==
    /\ px.kind = "dispatch" /\ px.done
    /\ px.name = sMOD \o sDot \o sCtpBin
    /\ px.matches = {CTP}

\* C3 (as claimed): every file object that holds its file open is still held
\* by the caller, and none was closed more than once.
C3_HandlesClosedOnce ==
    \A h \in 1..Len(handles) :
        /\ handles[h].open => h \in refs
        /\ handles[h].closes <= 1

\* C4 (as claimed): the modules dispatch probes, in order, are the same under
\* every order in which the directory can be listed.
C4_FixedProbeOrder ==
    (px.kind = "dispatch" /\ px.done) =>
        \A l \in Listings : Dry(l, px.name).probed = px.res.probed

\* C5 (as claimed): a load call with neither path nor file object raises the
\* MissingSource ValueError, on the guidebook and through io_manager alike.
C5_MissingSource ==
    (last.op \in LoadOps /\ last.path = NonePath /\ last.fo_in = NoHandle) =>
        /\ last.err = "MissingSource"
        /\ last.fo = NoHandle

\* C6 (as claimed): io_manager.load_variable_from_file with a file object and
\* no path loads a variable of that file from the object and returns both.
C6_HandleOnlyLoad ==
    (/\ last.op = "load_variable_from_file"
     /\ last.path = NonePath
     /\ last.fo_in # NoHandle
     /\ last.var \in DOMAIN Disk(handles[last.fo_in].path)) =>
        /\ last.err = "none"
        /\ last.fo = last.fo_in
        /\ last.data # NoData

\* C7: an HDF load of a variable the file lacks, given a file object, raises
\* VariableNotFound with no data and changes no file object: the given one
\* stays as it was and every later load from it returns what it did before.
C7_NotFoundKeepsHandle ==
    [][ (/\ last'.op \in LoadOps
         /\ last'.mod \in {MODIS, CLAVRX}
         /\ last'.fo_in # NoHandle
         /\ last'.var \notin DOMAIN Disk(handles[last'.fo_in].path))
        => (/\ last'.err = "VariableNotFound"
            /\ last'.data = NoData
            /\ handles' = handles
            /\ refs' = refs
            /\ \A v \in Variables, shared \in BOOLEAN :
                  LoadVariableFromFile(last'.mod, v, NonePath, last'.fo_in, handles', shared).data
                = LoadVariableFromFile(last'.mod, v, NonePath, last'.fo_in, handles, shared).data)
      ]_vars

C7_Witness ==
    /\ last.op \in LoadOps /\ last.err = "VariableNotFound"
    /\ last.fo_in \in refs /\ handles[last.fo_in].open
    /\ last.data = NoData

\* the scale and offset the HDF loaders work with: the calibration's, else the
\* named attributes', else 1 and 0
FileScale(ds) ==
    IF ds.cal.ok THEN ds.cal.scale_factor
    ELSE IF SCALE_ATTR_NAME \in DOMAIN ds.attrs THEN ds.attrs[SCALE_ATTR_NAME] ELSE 1
FileOffset(ds) ==
    IF ds.cal.ok THEN ds.cal.add_offset
    ELSE IF ADD_OFFSET_ATTR_NAME \in DOMAIN ds.attrs THEN ds.attrs[ADD_OFFSET_ATTR_NAME] ELSE 0
IsFill(ds, i) ==
    /\ FILL_VALUE_ATTR_NAME \in DOMAIN ds.attrs
    /\ ds.raw[i] = ds.attrs[FILL_VALUE_ATTR_NAME]

\* C8: the clavrx loader returns the sentinel at fill cells and
\* raw * scale + offset at every other cell.
C8_ClavrxScaleThenOffset ==
    (px.kind = "hdf" /\ px.done /\ px.mod = CLAVRX) =>
        /\ px.res.err = "none"
        /\ DOMAIN px.res.data = DOMAIN px.ds.raw
        /\ \A i \in DOMAIN px.ds.raw :
              px.res.data[i] = IF IsFill(px.ds, i) THEN NaN
                               ELSE Num(px.ds.raw[i] * FileScale(px.ds) + FileOffset(px.ds))

SampleDataset(ds) ==
    /\ FileScale(ds) = 2 /\ FileOffset(ds) = 1
    /\ FILL_VALUE_ATTR_NAME \in DOMAIN ds.attrs /\ ds.attrs[FILL_VALUE_ATTR_NAME] = -9999
    /\ ds.raw[1] = 5 /\ ds.raw[2] = -9999

C8_Witness ==
    /\ px.kind = "hdf" /\ px.done /\ px.mod = CLAVRX
    /\ SampleDataset(px.ds)
    /\ px.res.data[1] = Num(11) /\ px.res.data[2] = NaN

\* C9: the modis loader returns the sentinel at fill cells and
\* scale * (raw - offset) at every other cell; for scale 2, offset 1, raw 5
\* that is 8 where the clavrx loader gives 11.
C9_ModisOffsetThenScale ==
    (px.kind = "hdf" /\ px.done /\ px.mod = MODIS) =>
        /\ px.res.err = "none"
        /\ DOMAIN px.res.data = DOMAIN px.ds.raw
        /\ \A i \in DOMAIN px.ds.raw :
              px.res.data[i] = IF IsFill(px.ds, i) THEN NaN
                               ELSE Num(FileScale(px.ds) * (px.ds.raw[i] - FileOffset(px.ds)))
        /\ SampleDataset(px.ds) =>
              /\ px.res.data[1] = Num(8)
              /\ HdfReadVariable(CLAVRX, px.ds, px.shared).data[1] = Num(11)

C9_Witness ==
    /\ px.kind = "hdf" /\ px.done /\ px.mod = MODIS
    /\ SampleDataset(px.ds)
    /\ px.res.data[1] = Num(8) /\ px.res.data[2] = NaN

\* C10: the binary product loader returns the sentinel exactly at the cells
\* whose raw value is the variable's fill constant or lies strictly outside
\* the variable's valid range, and the raw value at every other cell.
RawCell(variable_name, pattern, i) == CtpSamples(variable_name)[pattern[i]]

C10_CtpFillAndRange ==
    (px.kind = "ctp" /\ px.loads > 0) =>
        \A i \in 1..NCells :
            LET raw     == RawCell(px.var, px.pattern, i)
                is_fill == px.var \in DOMAIN FILL_VALUES /\ raw = FILL_VALUES[px.var]
                outside == /\ px.var \in DOMAIN VALID_RANGES
                           /\ (raw < VALID_RANGES[px.var][1] \/ raw > VALID_RANGES[px.var][2])
            IN  /\ px.res[i].nan <=> (is_fill \/ outside)
                /\ ~(is_fill \/ outside) => px.res[i] = Num(raw)

C10_Witness ==
    /\ px.kind = "ctp" /\ px.loads > 0
    /\ px.var = LATITUDE_NAME
    /\ RawCell(px.var, px.pattern, 1) = 900 /\ px.res[1] = Num(900)
    /\ RawCell(px.var, px.pattern, 2) = 901 /\ px.res[2] = NaN

\* the auxiliary call under study has returned its data sets
AuxDone(mods) == px.kind = "aux" /\ px.done /\ px.res.err = "none" /\ px.mod \in mods

\* C11: in the mask set load_aux_data returns, of any of the three guidebooks,
\* no cell is in the day mask and in the night mask, cells whose inputs are
\* missing included.
C11_MasksExclusive ==
    AuxDone(Guidebooks) =>
       \A i \in DOMAIN px.res.aux.day_mask :
          ~(px.res.aux.day_mask[i] /\ px.res.aux.night_mask[i])

\* a cell without solar zenith next to a cell in the night mask, a binary file
\* with a day cell and a night cell
C11_Witness ==
    \/ /\ AuxDone({MODIS, CLAVRX})
       /\ px.file[AuxNames(px.mod)[3]].raw[1] = AuxFill
       /\ px.res.aux.night_mask[2]
       /\ ~px.res.aux.day_mask[1] /\ ~px.res.aux.night_mask[1]
    \/ /\ AuxDone({CTP})
       /\ px.res.aux.day_mask[1] /\ px.res.aux.night_mask[2]

\* the value the loader hands on for a raw cell of an auxiliary dataset
AuxCell(raw) == IF raw = AuxFill THEN NaN ELSE Num(raw)
SolarCell(i) == AuxCell(px.file[AuxNames(px.mod)[3]].raw[i])
ScanCell(i) ==
    LET zen == px.file[AuxNames(px.mod)[4]].raw[i]
    IN  IF zen = AuxFill THEN NaN ELSE Num(ScanAngleOf(zen))
ScanOk(i) == FLe(ScanCell(i), Num(px.min_scan))

\* C12: for MODIS and CLAVRx a cell is in the day mask iff its solar zenith is
\* below 84 and its scan angle is at most min_scan_angle, in the night mask iff
\* its solar zenith is at least 84 and its scan angle is at most
\* min_scan_angle; a cell whose scan angle exceeds min_scan_angle is in
\* neither mask, and a cell with a valid scan angle and a solar zenith is in
\* exactly one.
C12_HdfMasks ==
    AuxDone({MODIS, CLAVRX}) =>
       \A i \in DOMAIN px.res.aux.day_mask :
          /\ px.res.aux.day_mask[i] <=>
                (FLt(SolarCell(i), Num(DAY_NIGHT_LINE_DEGREES)) /\ ScanOk(i))
          /\ px.res.aux.night_mask[i] <=>
                (FGe(SolarCell(i), Num(DAY_NIGHT_LINE_DEGREES)) /\ ScanOk(i))
          /\ FGt(ScanCell(i), Num(px.min_scan)) =>
                (~px.res.aux.day_mask[i] /\ ~px.res.aux.night_mask[i])
          /\ (ScanOk(i) /\ ~SolarCell(i).nan) =>
                (px.res.aux.day_mask[i] # px.res.aux.night_mask[i])

\* a cell on the day/night line with its scan angle exactly at the minimum,
\* next to a cell that the scan angle keeps out of both masks
C12_Witness ==
    /\ AuxDone({MODIS, CLAVRX})
    /\ SolarCell(1) = Num(DAY_NIGHT_LINE_DEGREES)
    /\ ScanCell(1) = Num(px.min_scan)
    /\ px.res.aux.night_mask[1]
    /\ FLt(SolarCell(2), Num(DAY_NIGHT_LINE_DEGREES))
    /\ FGt(ScanCell(2), Num(px.min_scan))
    /\ ~px.res.aux.day_mask[2]

\* C13: for the binary product the day mask is true exactly on the cells
\* whose Day_Night_Flag is 1 and the night mask exactly on those whose flag is
\* 2, whatever min_scan_angle is; flags 1, 2, 1, 3 give day T, F, T, F and
\* night F, T, F, F.
C13_CtpMasks ==
    AuxDone({CTP}) =>
       \A i \in DOMAIN px.res.aux.day_mask :
          /\ px.res.aux.day_mask[i]   <=> (px.file[DAY_NIGHT_FLAG_NAME][i] = Num(10))
          /\ px.res.aux.night_mask[i] <=> (px.file[DAY_NIGHT_FLAG_NAME][i] = Num(20))

C13_Witness ==
    /\ AuxDone({CTP})
    /\ px.min_scan = 0
    /\ SubSeq(px.file[DAY_NIGHT_FLAG_NAME], 1, 4) = <<Num(10), Num(20), Num(10), Num(30)>>
    /\ SubSeq(px.res.aux.day_mask, 1, 4)   = <<TRUE, FALSE, TRUE, FALSE>>
    /\ SubSeq(px.res.aux.night_mask, 1, 4) = <<FALSE, TRUE, FALSE, FALSE>>

\* the name resolution under study has returned
NamesDone(mods) == px.kind = "names" /\ px.done /\ px.err = "none" /\ px.mod \in mods

\* C14: get_variable_names of an empty request is the guidebook's default
\* set; of any other request it is the set of the table's values for the
\* requested names the table knows, names it does not know dropped without an
\* error, so that a request of unknown names only gives the empty set.
C14_ResolveNames ==
    /\ px.kind = "names" /\ px.done => px.err = "none"
    /\ NamesDone(Guidebooks) =>
          LET known == px.requested \cap DOMAIN CALLER_VARIABLE_MAP(px.mod)
          IN  /\ px.requested = {} => px.res = EXPECTED_VARIABLES_IN_FILE(px.mod)
              /\ px.requested # {} =>
                    px.res = {CALLER_VARIABLE_MAP(px.mod)[n] : n \in known}
              /\ (px.requested # {} /\ known = {}) => px.res = {}

\* a request of one known and one unknown name, answered with one name
C14_Witness ==
    /\ NamesDone({CTP})
    /\ px.requested = {"lat", "no such name"}
    /\ px.res = {LATITUDE_NAME}

\* str.lower on the names of the requests
Lower(name) ==
    CASE name = "LAT"      -> "lat"
      [] name = "Latitude" -> "latitude"
      [] OTHER             -> name

\* C15: (as claimed) a requested name that differs from a key of the table in
\* letter case only resolves like the key.
C15_CaseTolerant ==
    NamesDone(Guidebooks) =>
       px.res = GetVariableNames(px.mod, {Lower(n) : n \in px.requested})

\* the range of a table
Values(table) == {table[k] : k \in DOMAIN table}

\* C16: for MODIS and CLAVRx every value of the alias table and every default
\* variable is a key of DATA_TYPE_TO_USE, so every name get_variable_names
\* returns has metadata.
C16_NamesHaveMetadata ==
    /\ \A mod \in {MODIS, CLAVRX} :
          Values(CALLER_VARIABLE_MAP(mod)) \cup EXPECTED_VARIABLES_IN_FILE(mod)
             \subseteq DOMAIN DATA_TYPE_TO_USE(mod)
    /\ NamesDone({MODIS, CLAVRX}) => px.res \subseteq DOMAIN DATA_TYPE_TO_USE(px.mod)

\* the default set returned, and a request resolved to two names
C16_Witness ==
    \/ NamesDone({CLAVRX}) /\ px.requested = {} /\ px.res = {"cloud_mask"}
    \/ NamesDone({MODIS}) /\ Cardinality(px.res) = 2

\* the call under study has ended, with a value or with an exception
DtDone(mods)  == px.kind = "filename" /\ px.dt # NotCalled /\ px.mod \in mods
SatDone(mods) == px.kind = "filename" /\ px.sat # NotCalled /\ px.mod \in mods
Temp == Split(CleanOffPath(px.name))

\* C17: (as claimed) parse_datetime_from_filename on a name its guidebook
\* accepts never raises: a name without the date and time tokens, too few
\* tokens or tokens of another pattern, gives None.
C17_NoLayoutGivesNone ==
    DtDone(Guidebooks) => px.dt.err = "none"

Timestamp == <<2014, 15, 12, 30>>

\* C18: (as claimed) a modis name with the tokens 'A2014015' and '1230', a
\* clavrx name with the tokens '14015' and '1230' and a binary product name
\* with the one token 'D14015S1230' parse to the same timestamp: 2014, day 15,
\* 12:30.
C18_SingleToken ==
    /\ (DtDone({MODIS}) /\ Len(Temp) >= 3 /\ Temp[2] = tA2014015 /\ Temp[3] = t1230)
          => px.dt = Parsed("none", Timestamp)
    /\ (DtDone({CLAVRX}) /\ Len(Temp) >= 4 /\ Temp[3] = t14015 /\ Temp[4] = t1230)
          => px.dt = Parsed("none", Timestamp)
    /\ (DtDone({CTP}) /\ \E k \in 1..Len(Temp) : Temp[k] = tD14015S1230)
          => px.dt = Parsed("none", Timestamp)

\* C18: a modis name whose tokens 1 and 2 are 'A2014015' and '1230', a clavrx
\* name whose tokens 2 and 3 are '14015' and '1230' and a binary product name
\* whose tokens 3 and 4 are 'D14015' and 'S1230' (the first token is token 0)
\* parse to the same timestamp: 2014, day 15, 12:30.
C18_SameTimestamp ==
    /\ (DtDone({MODIS}) /\ Len(Temp) >= 3 /\ Temp[2] = tA2014015 /\ Temp[3] = t1230)
          => px.dt = Parsed("none", Timestamp)
    /\ (DtDone({CLAVRX}) /\ Len(Temp) >= 4 /\ Temp[3] = t14015 /\ Temp[4] = t1230)
          => px.dt = Parsed("none", Timestamp)
    /\ (DtDone({CTP}) /\ Len(Temp) >= 5 /\ Temp[4] = tD14015 /\ Temp[5] = tS1230)
          => px.dt = Parsed("none", Timestamp)

\* NSS.HIRX.NN.D14015.S1230.ctp.bin parsed
C18_Witness ==
    /\ DtDone({CTP})
    /\ px.name = Join(<<tNSS, tHIRX, <<"N", "N">>, tD14015, tS1230, tCtp, tBin>>)
    /\ px.dt = Parsed("none", Timestamp)

OffendingPath ==
    IF last.path # NonePath THEN last.path
    ELSE IF last.fo_in # NoHandle THEN handles[last.fo_in].path
    ELSE NonePath

\* C20: (as claimed) the message of every failure shows the path of the file
\* the call was about, when there is one, and the variable it was to load; the
\* message of a variable not found shows the file also when the call was given
\* a handle only.
C20_MessagesNameFile ==
    last.err # "none" =>
       LET shown == ErrorMessage(last.err, last.var, last.path)
       IN  /\ OffendingPath # NonePath => shown.path = OffendingPath
           /\ last.op \in LoadOps => shown.token = last.var

\* C21 (as claimed): dispatch leaves the module search path as it found it:
\* after any number of dispatch calls sys.path is what it was before the first.
C21_SearchPathUnchanged ==
    px.kind = "syspath" => px.sys_path = px.start

\* C22: the outcome of dispatch on a file name, the guidebook returned or
\* the no-match error, is the same under every order in which os.listdir can
\* enumerate the three guidebook modules (only the modules probed on the way
\* differ).
C22_OutcomeIgnoresOrder ==
    (px.kind = "dispatch" /\ px.done) =>
        \A l \in Listings :
            LET other == Dry(l, px.name)
            IN  other.err = px.res.err /\ other.mod = px.res.mod

\* a name its guidebook accepts, found after the two other modules declined
C22_Witness ==
    /\ px.kind = "dispatch" /\ px.done
    /\ px.res.err = "none" /\ px.res.mod = CTP
    /\ Len(px.res.probed) = 3
    /\ \E l \in Listings : Dry(l, px.name).probed = <<CTP>>

\* C23: load_aux_data given a path and no file object opens exactly one
\* handle, on that path, and returns it: the first dataset load opens it and
\* the later loads reuse it. Given a file object it opens none and returns
\* the file object it was given.
C23_AuxOpensOnce ==
    [][(px.kind = "aux" /\ ~px.done /\ px'.done /\ px'.res.err = "none") =>
          IF px.fo_in = NoHandle
          THEN /\ Len(handles') = Len(handles) + 1
               /\ px'.res.file_object = Len(handles')
               /\ handles'[Len(handles')].path = px.path
          ELSE /\ Len(handles') = Len(handles)
               /\ px'.res.file_object = px.fo_in]_vars

\* the masks of a binary product loaded through one handle opened by the call
C23_Witness ==
    /\ px.kind = "aux" /\ px.done /\ px.res.err = "none"
    /\ px.fo_in = NoHandle /\ px.mod = CTP
    /\ Len(handles) = 1 /\ px.res.file_object = 1

\* the same load on the file object the caller already held
C23_GivenHandle ==
    /\ px.kind = "aux" /\ px.done /\ px.res.err = "none"
    /\ px.fo_in = 1 /\ px.mod = MODIS
    /\ Len(handles) = 1 /\ px.res.file_object = 1

\* C24: loading from an open file object is idempotent and does not interfere
\* with other loads, in every guidebook: whatever was loaded through the
\* handle before, a load of a variable returns the buffer that the first
\* load from a freshly opened handle returns (the binary product loader
\* writes the sentinel into the handle's own field, which a later load reads
\* back unchanged).
FirstLoad(mod, variable_name, pattern, shared) ==
    LoadVariableFromFile(mod, variable_name, NonePath, 1, FreshHandle(mod, pattern), shared).data

C24_ReloadSameBuffer ==
    (px.kind = "reload" /\ px.seq # <<>>) =>
        \A shared \in BOOLEAN :
            px.res = FirstLoad(px.mod, px.seq[Len(px.seq)], px.pattern, shared)

\* a pressure field with a fill cell, loaded, then another field, then the
\* pressure again: the cell masked in place by the first load comes back masked
C24_Witness ==
    /\ px.kind = "reload" /\ px.mod = CTP
    /\ px.seq = <<CLOUD_TOP_PRESS_NAME, LATITUDE_NAME, CLOUD_TOP_PRESS_NAME>>
    /\ px.pattern[1] = 1 /\ px.pattern[2] = 4
    /\ handles[1].mem[CLOUD_TOP_PRESS_NAME][1] = NaN
    /\ px.res[1] = NaN /\ px.res[2] = Num(2500)

\* C25: in the HDF loaders the data-type assertion cannot fail on the
\* fallback path: when the calibration accessor raised and scale and offset
\* come from the attributes, a scale other than 1 or an offset other than 0
\* was read from an attribute, and reading it set the type; so the load
\* succeeds, and an AssertionError needs an accessor that succeeded without
\* a type.
ByHandNonTrivial(ds) ==
    /\ ~ds.cal.ok
    /\ \/ (SCALE_ATTR_NAME \in DOMAIN ds.attrs /\ ds.attrs[SCALE_ATTR_NAME] # 1)
       \/ (ADD_OFFSET_ATTR_NAME \in DOMAIN ds.attrs /\ ds.attrs[ADD_OFFSET_ATTR_NAME] # 0)

C25_FallbackHasType ==
    (px.kind = "hdf" /\ px.done) =>
        /\ ByHandNonTrivial(px.ds) =>
              (ByHandDataType(px.ds.attrs) # "None" /\ px.res.err = "none")
        /\ ~px.ds.cal.ok => px.res.err # "AssertionError"
        /\ px.res.err = "AssertionError" => (px.ds.cal.ok /\ px.ds.cal.data_type = "None")

\* an offset attribute alone, no scale attribute, no calibration record: the
\* offset's type is the data type and the clavrx loader adds the offset
C25_Witness ==
    /\ px.kind = "hdf" /\ px.done /\ px.mod = CLAVRX
    /\ ~px.ds.cal.ok
    /\ DOMAIN px.ds.attrs = {ADD_OFFSET_ATTR_NAME} /\ px.ds.attrs[ADD_OFFSET_ATTR_NAME] = 1
    /\ px.ds.raw[1] = 5
    /\ px.res.err = "none" /\ px.res.data[1] = Num(6)

\* C26 (as claimed): every alias written as a key in the modis
\* CALLER_VARIABLE_MAP resolves to the variable written next to it; a
\* request of 'ctp1km' gives {'cloud_top_pressure_1km'}.
WrittenModisAliases ==
    (DOMAIN ModisCallerVariableMap \ {TodoCtp1kmKey}) \cup {"ctp1km"}

WrittenModisValue(alias) ==
    IF alias = "ctp1km" THEN "cloud_top_pressure_1km" ELSE ModisCallerVariableMap[alias]

C26_WrittenAliasesResolve ==
    NamesDone({MODIS}) =>
        /\ \A alias \in px.requested \cap WrittenModisAliases :
               WrittenModisValue(alias) \in px.res
        /\ px.requested = {"ctp1km"} => px.res = {"cloud_top_pressure_1km"}

\* C27 (as claimed): some file name that ctp_guidebook.is_my_file accepts has
\* both its date and its satellite understood: parse_datetime_from_filename
\* and get_satellite_from_filename both succeed on it.
BothSucceed(name) ==
    /\ CtpIsMyFile(name)
    /\ ParseDatetimeFromFilename(CTP, name).err = "none"
    /\ GetSatelliteFromFilename(CTP, name).err = "none"

C27_SomeNameServesBoth ==
    (DtDone({CTP}) /\ SatDone({CTP}) /\ px.dt.err = "none") =>
        \E name \in FileNames : BothSucceed(name)

\* what holds instead: no name had both calls succeed
C27_NeverBoth ==
    (DtDone({CTP}) /\ SatDone({CTP})) => (px.dt.err # "none" \/ px.sat.err # "none")

====
